---- MODULE Spec2Model ----
(***************************************************************************)
(* Model of nrv/CL_postprocessing.py: the spike detector                   *)
(* (spike_detection), the two operations that write to a record            *)
(* (filter_freq, rasterize) and the raster queries built on the detector's *)
(* output (find_spike_origin, find_spike_last_occurance, speed, block).    *)
(*                                                                         *)
(* Times are integers in a unit of which dt, t_start, t_refractory and     *)
(* t_min_spike are whole multiples; voltages are integers relative to the  *)
(* threshold.  Python's 0-based column indices are kept for the voltage    *)
(* matrix; numpy index arrays over a raster are modelled 1-based.          *)
(***************************************************************************)
EXTENDS Integers, Sequences, FiniteSets, TLC

VARIABLES
    \* ---- spike_detection: arguments
    Voltage,            \* the matrix, reduced to the row being scanned:
                        \* [{i} -> [0..NCols-1 -> Vals]], <<>> between rows
    list_to_parse,      \* rows to scan, in order
    dt, t_start, t_stop, t_refractory, t_min_spike,
    \* ---- spike_detection: locals
    pc,                 \* detector: "row" | "scan" | "done"; queries: "idle" | "returned"
    li,                 \* position of the outer loop in list_to_parse (1-based)
    j,                  \* inner loop variable
    t_last_spike,
    raster_position, raster_x_position, raster_time_index, raster_time,
    \* ---- raster queries
    my_dict,            \* the simulation record
    call,               \* the query being answered and its arguments
    good_key_prefix,    \* the query's local of that name, "unset" while unbound
    result              \* what the query gave back

detect_vars == <<Voltage, list_to_parse, dt, t_start, t_stop, t_refractory,
                 t_min_spike, pc, li, j, t_last_spike,
                 raster_position, raster_x_position, raster_time_index, raster_time>>
detect_vars_but_pc ==
    <<Voltage, list_to_parse, dt, t_start, t_stop, t_refractory, t_min_spike,
      li, j, t_last_spike,
      raster_position, raster_x_position, raster_time_index, raster_time>>
query_vars == <<my_dict, call, good_key_prefix, result>>
vars == <<detect_vars, query_vars>>

----------------------------------------------------------------------------
(* Bounds *)
NCols == 5              \* samples per row of the voltage matrix
MaxRows == 2            \* rows of the voltage matrix
MaxScan == 1            \* rows handed to one direct call of spike_detection

Rows == 0..(MaxRows - 1)
Cols == 0..(NCols - 1)
Vals == {-1, 0, 1}      \* a sample below, at, above the threshold

\* the timing arguments tried.  dt is odd, so that no quotient t/dt falls on
\* a half, where rounding conventions differ
Dts == {1, 3}
TStarts == {0, 2}
TRefractories == {0, 1, 2}
TMinSpikes == {0, 2, 3}
\* the resolved t_stop: the last column, or an earlier one
TStops == {2, NCols - 1}

None == "None"          \* an omitted key argument
Unset == "unset"        \* a local variable that has not been assigned
NoBound == <<>>         \* x_min / x_max left at None; a bound b is <<b>>

----------------------------------------------------------------------------
(* spike_detection, lines 225-249 *)

thr == 0

\* coordinate array x and time vector t handed to spike_detection
x == [i \in Rows |-> 10 * (i + 1)]
t == [jj \in Cols |-> jj * dt]

\* int(a*(1/b)): Python's int() truncates toward zero
IntDiv(a, b) == IF a >= 0 THEN a \div b ELSE -((-a) \div b)

Min2(a, b) == IF a <= b THEN a ELSE b

\* strictly increasing non-empty row lists (node_index, or arange(len(x_rec)))
RowLists ==
    {s \in UNION {[1..n -> Rows] : n \in 1..MaxRows} :
        \A a, b \in DOMAIN s : a < b => s[a] < s[b]}

\* the row lists np.arange(n) of a direct call
ScanLists == {[k \in 1..n |-> k - 1] : n \in 1..MaxScan}

\* the row the outer loop is on
CurRow == list_to_parse[li]

\* a crossing test that misses a sample sitting exactly on the threshold
Crossing_strict(i, jj) == Voltage[i][jj] < thr /\ Voltage[i][jj + 1] > thr

\* line 238, first half: rising threshold crossing between j and j+1
Crossing(i, jj) == Voltage[i][jj] <= thr /\ Voltage[i][jj + 1] >= thr

\* a look-ahead index that is not cut off at t_stop
LookAhead_unclamped(jj) == jj + IntDiv(t_min_spike, dt)

\* line 239: still at/above threshold after the minimum spike duration
LookAhead(jj) == Min2(jj + IntDiv(t_min_spike, dt), t_stop)
MinDuration(i, jj) == Voltage[i][LookAhead(jj)] >= thr

\* the column indices the condition of lines 238-240 reads at sample jj:
\* `and` evaluates its right operand only when the left one is true, and
\* nothing is known of what follows a read outside the matrix
ReadIndices(i, jj) ==
    LET second == IF jj \in Cols /\ Voltage[i][jj] <= thr THEN {jj + 1} ELSE {}
        third == IF second # {} /\ (jj + 1) \in Cols /\ Voltage[i][jj + 1] >= thr
                 THEN {LookAhead(jj)} ELSE {}
    IN  {jj} \cup second \cup third

\* a refractory test that lets a spike through at exactly t_refractory
NotRefractory_ge(jj) == (jj * dt - t_last_spike) >= t_refractory

\* line 240: outside the refractory window
NotRefractory(jj) == (jj * dt - t_last_spike) > t_refractory

SpikeAt(i, jj) == Crossing(i, jj) /\ MinDuration(i, jj) /\ NotRefractory(jj)

\* a list that takes its new element at the front
append_front(l, v) == <<v>> \o l

\* lines 242-245: list.append
append(l, v) == Append(l, v)

QueryIdle ==
    /\ my_dict = [keys |-> {}]
    /\ call = [op |-> "none"]
    /\ good_key_prefix = Unset
    /\ result = [kind |-> "none"]

\* the arguments of one call of spike_detection, and lines 230-233
InitDetect ==
    /\ list_to_parse \in ScanLists
    /\ dt \in Dts
    /\ t_start \in TStarts
    /\ t_stop \in TStops
    /\ t_refractory \in TRefractories
    /\ t_min_spike \in TMinSpikes
    /\ Voltage = <<>>
    /\ pc = "row"
    /\ li = 1
    /\ j = 0
    /\ t_last_spike = 0
    /\ raster_position = <<>>
    /\ raster_x_position = <<>>
    /\ raster_time_index = <<>>
    /\ raster_time = <<>>
    /\ QueryIdle

\* lines 235-237: the outer loop takes the next row; its samples are an
\* input, read only while this row is scanned
RowBegin ==
    /\ pc = "row"
    /\ li <= Len(list_to_parse)
    /\ Voltage' \in [{CurRow} -> [Cols -> Vals]]
    /\ t_last_spike' = t_start - t_refractory
    /\ j' = IntDiv(t_start, dt)
    /\ pc' = "scan"
    /\ UNCHANGED <<list_to_parse, dt, t_start, t_stop, t_refractory, t_min_spike, li,
                   raster_position, raster_x_position, raster_time_index, raster_time>>
    /\ UNCHANGED query_vars

\* lines 238-247: one pass of the inner loop body
Sample ==
    /\ pc = "scan"
    /\ j < t_stop
    /\ IF SpikeAt(CurRow, j)
       THEN /\ raster_position' = append(raster_position, CurRow)
            /\ raster_x_position' = append(raster_x_position, x[CurRow])
            /\ raster_time_index' = append(raster_time_index, j)
            /\ raster_time' = append(raster_time, t[j])
            /\ t_last_spike' = j * dt
       ELSE UNCHANGED <<raster_position, raster_x_position, raster_time_index,
                        raster_time, t_last_spike>>
    /\ j' = j + 1
    /\ UNCHANGED <<Voltage, list_to_parse, dt, t_start, t_stop, t_refractory,
                   t_min_spike, pc, li>>
    /\ UNCHANGED query_vars

\* line 237: range exhausted, back to the outer loop; the row is not read
\* again
RowEnd ==
    /\ pc = "scan"
    /\ j >= t_stop
    /\ li' = li + 1
    /\ pc' = "row"
    /\ Voltage' = <<>>
    /\ UNCHANGED <<list_to_parse, dt, t_start, t_stop, t_refractory,
                   t_min_spike, j, t_last_spike,
                   raster_position, raster_x_position, raster_time_index, raster_time>>
    /\ UNCHANGED query_vars

\* line 249
Return ==
    /\ pc = "row"
    /\ li > Len(list_to_parse)
    /\ pc' = "done"
    /\ UNCHANGED <<Voltage, list_to_parse, dt, t_start, t_stop, t_refractory,
                   t_min_spike, li, j, t_last_spike,
                   raster_position, raster_x_position, raster_time_index, raster_time>>
    /\ UNCHANGED query_vars

NextDetect == RowBegin \/ Sample \/ RowEnd \/ Return

SpecDetect == InitDetect /\ [][NextDetect]_vars

----------------------------------------------------------------------------
(* The simulation record read by the raster queries *)

MaxEvents == 3          \* raster events held by one record, over all key-sets

Filtered == "V_mem_filtered_raster"
Raw == "V_mem_raster"
RKeys == {Filtered, Raw}

Coords == {0, 30}       \* coordinates of the recorded positions
FiberLength == 30       \* my_dict['L']
SimTStop == 4           \* my_dict['tstop']; raster events lie before it
ElectrodeX == 20        \* my_dict['extracellular_electrode_x']

Grid == [time : 1..(SimTStop - 1), x_position : Coords]

\* a raster as spike_detection leaves it: rows in ascending order, and
\* within a row ascending times
EvBefore(a, b) ==
    \/ a.x_position < b.x_position
    \/ a.x_position = b.x_position /\ a.time < b.time
SeqOf(S) ==
    CHOOSE s \in [1..Cardinality(S) -> S] :
        \A a, b \in 1..Cardinality(S) : a < b => EvBefore(s[a], s[b])
Rasters == {SeqOf(S) : S \in {T \in SUBSET Grid : Cardinality(T) <= MaxEvents}}
RasterMaps ==
    {r \in [RKeys -> Rasters] : Len(r[Filtered]) + Len(r[Raw]) <= MaxEvents}

\* the optional stimulation metadata: the keys held and their values (an
\* absent key has a value that is never read)
StimConfigs ==
    {[keys |-> {}, intra_stim_starts |-> <<>>, intra_stim_positions |-> 0],
     [keys |-> {"intra_stim_starts"}, intra_stim_starts |-> <<>>,
      intra_stim_positions |-> 0],
     [keys |-> {"intra_stim_starts"}, intra_stim_starts |-> <<2>>,
      intra_stim_positions |-> 0],
     [keys |-> {"intra_stim_positions"}, intra_stim_starts |-> <<>>,
      intra_stim_positions |-> 10],
     [keys |-> {"intra_stim_positions"}, intra_stim_starts |-> <<>>,
      intra_stim_positions |-> 30],
     [keys |-> {"intra_stim_starts", "intra_stim_positions"},
      intra_stim_starts |-> <<2>>, intra_stim_positions |-> 10]}

\* a record: keys says which optional keys it holds; a raster key-set that
\* is not held has an empty value that is never read
Records ==
    {[keys |-> ks \cup c.keys,
      raster |-> [k \in RKeys |-> IF k \in ks THEN r[k] ELSE <<>>],
      tstop |-> SimTStop,
      L |-> FiberLength,
      intra_stim_starts |-> c.intra_stim_starts,
      intra_stim_positions |-> c.intra_stim_positions,
      extracellular_electrode_x |-> ElectrodeX] :
        ks \in SUBSET RKeys, r \in RasterMaps,
        c \in StimConfigs}

\* my_dict[prefix + '_time'] and my_dict[prefix + '_x_position']
TimeArr(d, prefix) == [k \in DOMAIN d.raster[prefix] |-> d.raster[prefix][k].time]
XPosArr(d, prefix) == [k \in DOMAIN d.raster[prefix] |-> d.raster[prefix][k].x_position]

----------------------------------------------------------------------------
(* numpy on one-dimensional arrays; an index array is the set of its      *)
(* (sorted, distinct) indices, 1-based                                     *)

\* np.where(a > v), np.where(a < v), np.where(a >= v), np.where(a <= v),
\* np.where(a == v)
WhereGT(a, v) == {k \in DOMAIN a : a[k] > v}
WhereLT(a, v) == {k \in DOMAIN a : a[k] < v}
WhereGE(a, v) == {k \in DOMAIN a : a[k] >= v}
WhereLE(a, v) == {k \in DOMAIN a : a[k] <= v}
WhereEQ(a, v) == {k \in DOMAIN a : a[k] = v}

\* a[I] for an index array I
Nth(I, n) == CHOOSE m \in I : Cardinality({k \in I : k < m}) = n - 1
Take(a, I) == [n \in 1..Cardinality(I) |-> a[Nth(I, n)]]

\* np.intersect1d
Intersect1d(I, J) == I \cap J

\* np.arange(len(a))
Arange(a) == 1..Len(a)

Range(a) == {a[k] : k \in DOMAIN a}
Amin(a) == CHOOSE v \in Range(a) : \A w \in Range(a) : v <= w
Amax(a) == CHOOSE v \in Range(a) : \A w \in Range(a) : v >= w
\* np.argmin / np.argmax: the first index of the extremum
Argmin(a) == CHOOSE k \in DOMAIN a : a[k] = Amin(a) /\ \A m \in DOMAIN a : a[m] = Amin(a) => k <= m
Argmax(a) == CHOOSE k \in DOMAIN a : a[k] = Amax(a) /\ \A m \in DOMAIN a : a[m] = Amax(a) => k <= m

Raise(e) == [kind |-> "raise", exc |-> e]
Arrays(ta, xa) == [kind |-> "arrays", time |-> ta, x_position |-> xa]

----------------------------------------------------------------------------
(* Key-prefix selection, lines 281-290, 347-356, 439-446, 490-497 *)

DefaultPrefix(d) ==
    IF Filtered \in d.keys THEN Filtered
    ELSE IF Raw \in d.keys THEN Raw
    ELSE Unset

\* the events strictly inside the time window, as indices into the raster
InTimeWindow(d, prefix, ts, te) ==
    LET sup_indexes == WhereGT(TimeArr(d, prefix), ts)
        inf_indexes == WhereLT(TimeArr(d, prefix), te)
    IN  Intersect1d(sup_indexes, inf_indexes)

----------------------------------------------------------------------------
(* find_spike_origin, lines 251-313 *)

\* an origin that keeps only the first of several simultaneous events
StartIndex_first(considered_spike_times) == {Argmin(considered_spike_times)}

\* line 310
StartIndex(considered_spike_times) ==
    WhereEQ(considered_spike_times, Amin(considered_spike_times))

\* the returned value together with the prefix the function ended up with
find_spike_origin(d, my_key, ts, te, x_min, x_max) ==
    LET te1 == IF te = 0 THEN d.tstop ELSE te
        prefix == IF my_key = None THEN DefaultPrefix(d) ELSE my_key
    IN  IF prefix = Unset THEN [res |-> [kind |-> "False"], prefix |-> Unset]
        ELSE IF prefix \notin d.keys THEN [res |-> Raise("KeyError"), prefix |-> prefix]
        ELSE
        LET good_indexes == InTimeWindow(d, prefix, ts, te1)
            good_spike_times == Take(TimeArr(d, prefix), good_indexes)
            good_spike_positions == Take(XPosArr(d, prefix), good_indexes)
            sup_xmin_indexes ==
                IF x_min # NoBound
                THEN WhereGT(good_spike_positions, x_min[1])
                ELSE Arange(good_spike_positions)
            inf_xmax_indexes ==
                IF x_max # NoBound
                THEN WhereLT(good_spike_positions, x_max[1])
                ELSE Arange(good_spike_positions)
            good_x_indexes == Intersect1d(sup_xmin_indexes, inf_xmax_indexes)
            considered_spike_times == Take(good_spike_times, good_x_indexes)
            considered_spike_positions == Take(good_spike_positions, good_x_indexes)
        IN  IF considered_spike_times = <<>>
            THEN \* np.amin of an empty array
                 [res |-> Raise("ValueError"), prefix |-> prefix]
            ELSE LET start_index == StartIndex(considered_spike_times)
                 IN  [res |-> Arrays(Take(considered_spike_times, start_index),
                                     Take(considered_spike_positions, start_index)),
                      prefix |-> prefix]

----------------------------------------------------------------------------
(* find_spike_last_occurance, lines 315-398 *)

\* lines 366-374 and 375-383: the last event(s) of one side of x_start
LastOf(side_times, side_positions) ==
    IF side_times = <<>>
    THEN Raise("ValueError")        \* np.amax of an empty array
    ELSE LET last_spike_index == WhereEQ(side_times, Amax(side_times))
         IN  Arrays(Take(side_times, last_spike_index),
                    Take(side_positions, last_spike_index))

\* lines 384-397: the branch taken for any direction but 'up' and 'down'
LastOfBoth(lower_spike_times, lower_spike_positions, upper_spike_times) ==
    IF upper_spike_times = <<>> \/ lower_spike_times = <<>>
    THEN Raise("ValueError")        \* np.amax of an empty array
    ELSE
    LET last_upper_spike_index ==
            WhereEQ(upper_spike_times, Amax(upper_spike_times))
        last_lower_spike_index ==
            WhereEQ(lower_spike_times, Amax(lower_spike_times))
    IN  \* the upper indices are applied to the lower arrays
        IF \E k \in last_upper_spike_index : k > Len(lower_spike_times)
        THEN Raise("IndexError")
        ELSE \* the [0] selects the first element of the two-element list
             [kind |-> "scalars",
              time |-> Take(lower_spike_times, last_lower_spike_index)[1],
              x_position |-> Take(lower_spike_positions, last_lower_spike_index)[1]]

find_spike_last_occurance(d, my_key, ts, te, direction, x_start) ==
    LET te1 == IF te = 0 THEN d.tstop ELSE te
        prefix == IF my_key = None THEN DefaultPrefix(d) ELSE my_key
        \* lines 358-359
        origin == find_spike_origin(d, prefix, ts, te1, NoBound, NoBound).res
    IN  IF prefix = Unset THEN [res |-> [kind |-> "False"], prefix |-> Unset]
        ELSE IF prefix \notin d.keys THEN [res |-> Raise("KeyError"), prefix |-> prefix]
        ELSE IF x_start = 0 /\ origin.kind = "raise" THEN [res |-> origin, prefix |-> prefix]
        ELSE IF x_start = 0 /\ Len(origin.time) > 1
        THEN \* several simultaneous origins: t_start and x_start are arrays
             \* that do not broadcast against the raster or its selection
             [res |-> Raise("ValueError"), prefix |-> prefix]
        ELSE
        LET ts1 == IF x_start = 0 THEN origin.time[1] ELSE ts
            xs1 == IF x_start = 0 THEN origin.x_position[1] ELSE x_start
            good_indexes == InTimeWindow(d, prefix, ts1, te1)
            considered_spike_times == Take(TimeArr(d, prefix), good_indexes)
            considered_spike_positions == Take(XPosArr(d, prefix), good_indexes)
            upper_spike_index == WhereGT(considered_spike_positions, xs1)
            lower_spike_index == WhereLT(considered_spike_positions, xs1)
            upper_spike_times == Take(considered_spike_times, upper_spike_index)
            upper_spike_positions == Take(considered_spike_positions, upper_spike_index)
            lower_spike_times == Take(considered_spike_times, lower_spike_index)
            lower_spike_positions == Take(considered_spike_positions, lower_spike_index)
        IN  [res |-> IF direction = "up"
                     THEN LastOf(upper_spike_times, upper_spike_positions)
                     ELSE IF direction = "down"
                     THEN LastOf(lower_spike_times, lower_spike_positions)
                     ELSE LastOfBoth(lower_spike_times, lower_spike_positions,
                                     upper_spike_times),
             prefix |-> prefix]

----------------------------------------------------------------------------
(* speed, lines 400-462, and block, lines 464-515 *)

\* lines 429-433 and 485-489
WindowStop(d, te) == IF te = 0 THEN d.tstop ELSE te
WindowStart(d, ts) ==
    IF ts = 0 /\ "intra_stim_starts" \in d.keys /\ d.intra_stim_starts # <<>>
    THEN d.intra_stim_starts[1]
    ELSE ts

\* lines 434-437
XWindow(d, x_start, x_stop) ==
    IF x_start = 0 THEN [x_start |-> x_start, x_stop |-> d.L]
    ELSE IF x_stop = 0 THEN [x_start |-> d.L, x_stop |-> x_stop]
    ELSE [x_start |-> x_start, x_stop |-> x_stop]

\* line 461 on numpy floats: a zero divisor gives nan or inf, not an exception
Quotient(num, den) ==
    IF den # 0 THEN [kind |-> "number", num |-> num, den |-> den]
    ELSE IF num = 0 THEN [kind |-> "nan"]
    ELSE [kind |-> "inf", positive |-> (num > 0)]

speed(d, position_key, ts, te, x_start, x_stop) ==
    LET te1 == WindowStop(d, te)
        ts1 == WindowStart(d, ts)
        xw == XWindow(d, x_start, x_stop)
    IN  IF position_key = None /\ DefaultPrefix(d) = Unset
        THEN [res |-> [kind |-> "False"], prefix |-> Unset]
        ELSE IF position_key # None
        THEN \* line 448 reads my_key, a name speed does not have
             [res |-> Raise("NameError"), prefix |-> Unset]
        ELSE
        LET prefix == DefaultPrefix(d)
            good_indexes_time == InTimeWindow(d, prefix, ts1, te1)
            in_time_positions == Take(XPosArr(d, prefix), good_indexes_time)
            sup_position_indexes == WhereGE(in_time_positions, xw.x_start)
            inf_position_indexes == WhereLE(in_time_positions, xw.x_stop)
            good_indexes_position == Intersect1d(sup_position_indexes, inf_position_indexes)
            \* line 456: indices into the time selection met with indices
            \* into the raster
            good_indexes == Intersect1d(good_indexes_position, good_indexes_time)
            good_spike_times == Take(TimeArr(d, prefix), good_indexes)
            good_spike_positions == Take(XPosArr(d, prefix), good_indexes)
        IN  IF good_spike_times = <<>>
            THEN \* np.argmax of an empty array
                 [res |-> Raise("ValueError"), prefix |-> prefix]
            ELSE LET max_time == Argmax(good_spike_times)
                     min_time == Argmin(good_spike_times)
                 IN  [res |-> Quotient(good_spike_positions[max_time]
                                         - good_spike_positions[min_time],
                                       good_spike_times[max_time]
                                         - good_spike_times[min_time]),
                      prefix |-> prefix]

\* line 503, `blocked_spike_positionlist==[]` used as a condition: an ndarray
\* compared with the list [] is never a true value, whatever its length.
\* Up to numpy 1.24 the comparison gives an empty array or a scalar False,
\* both falsy (with a deprecation warning); later releases raise ValueError
\* for the shape mismatch or for the truth value of an empty array.
EqualsEmptyListOutcomes == {"falsy", "raises"}

block(d, position_key, ts, te, eq_empty_list) ==
    LET te1 == WindowStop(d, te)
        ts1 == WindowStart(d, ts)
    IN  IF position_key = None /\ DefaultPrefix(d) = Unset
        THEN [res |-> [kind |-> "False"], prefix |-> Unset]
        ELSE IF position_key # None
        THEN \* no else branch: good_key_prefix is unbound at line 498
             [res |-> Raise("UnboundLocalError"), prefix |-> Unset]
        ELSE
        LET prefix == DefaultPrefix(d)
            good_indexes_time == InTimeWindow(d, prefix, ts1, te1)
            blocked_spike_positionlist == Take(XPosArr(d, prefix), good_indexes_time)
            res ==
                IF eq_empty_list = "raises"
                THEN Raise("ValueError")
                ELSE IF "intra_stim_positions" \in d.keys
                THEN IF blocked_spike_positionlist = <<>>
                     THEN Raise("ValueError")       \* max() / min() of nothing
                     ELSE IF d.intra_stim_positions < d.extracellular_electrode_x
                     THEN IF 10 * Amax(blocked_spike_positionlist) < 9 * d.L
                          THEN [kind |-> "True"] ELSE [kind |-> "False"]
                     ELSE IF 10 * Amin(blocked_spike_positionlist) > d.L
                          THEN [kind |-> "True"] ELSE [kind |-> "False"]
                ELSE \* the function ends without a return statement
                     [kind |-> "None"]
        IN  [res |-> res, prefix |-> prefix]

----------------------------------------------------------------------------
(* The queries as operations on a record *)

DetectIdle ==
    /\ Voltage = <<>>
    /\ list_to_parse = <<>>
    /\ dt = 1
    /\ t_start = 0
    /\ t_stop = 0
    /\ t_refractory = 0
    /\ t_min_spike = 0
    /\ li = 1
    /\ j = 0
    /\ t_last_spike = 0
    /\ raster_position = <<>>
    /\ raster_x_position = <<>>
    /\ raster_time_index = <<>>
    /\ raster_time = <<>>

InitQuery ==
    /\ my_dict \in Records
    /\ pc = "idle"
    /\ call = [op |-> "none"]
    /\ good_key_prefix = Unset
    /\ result = [kind |-> "none"]
    /\ DetectIdle

KeyArgs == {None} \cup RKeys
TStartArgs == {0, 1}
TStopArgs == {0, SimTStop - 1}

FindSpikeOrigin ==
    /\ pc = "idle"
    /\ \E my_key \in KeyArgs, ts \in TStartArgs, te \in TStopArgs,
          x_min \in {NoBound, <<0>>}, x_max \in {NoBound, <<30>>} :
          LET r == find_spike_origin(my_dict, my_key, ts, te, x_min, x_max)
          IN  /\ call' = [op |-> "find_spike_origin", key |-> my_key, t_start |-> ts,
                          t_stop |-> te, x_min |-> x_min, x_max |-> x_max]
              /\ result' = r.res
              /\ good_key_prefix' = r.prefix
    /\ pc' = "returned"
    /\ UNCHANGED <<my_dict, detect_vars_but_pc>>

FindSpikeLastOccurance ==
    /\ pc = "idle"
    /\ \E my_key \in KeyArgs, ts \in TStartArgs, te \in TStopArgs,
          direction \in {"up", "down", "both"}, x_start \in {0, 20} :
          LET r == find_spike_last_occurance(my_dict, my_key, ts, te, direction, x_start)
          IN  /\ call' = [op |-> "find_spike_last_occurance", key |-> my_key,
                          t_start |-> ts, t_stop |-> te,
                          direction |-> direction, x_start |-> x_start]
              /\ result' = r.res
              /\ good_key_prefix' = r.prefix
    /\ pc' = "returned"
    /\ UNCHANGED <<my_dict, detect_vars_but_pc>>

Speed ==
    /\ pc = "idle"
    /\ \E position_key \in KeyArgs, ts \in TStartArgs, te \in TStopArgs,
          x_start \in {0, 10}, x_stop \in {0, 30} :
          LET r == speed(my_dict, position_key, ts, te, x_start, x_stop)
          IN  /\ call' = [op |-> "speed", key |-> position_key,
                          t_start |-> ts, t_stop |-> te,
                          x_start |-> x_start, x_stop |-> x_stop]
              /\ result' = r.res
              /\ good_key_prefix' = r.prefix
    /\ pc' = "returned"
    /\ UNCHANGED <<my_dict, detect_vars_but_pc>>

Block ==
    /\ pc = "idle"
    /\ \E position_key \in KeyArgs, ts \in TStartArgs, te \in TStopArgs,
          eq_empty_list \in EqualsEmptyListOutcomes :
          LET r == block(my_dict, position_key, ts, te, eq_empty_list)
          IN  /\ call' = [op |-> "block", key |-> position_key,
                          t_start |-> ts, t_stop |-> te]
              /\ result' = r.res
              /\ good_key_prefix' = r.prefix
    /\ pc' = "returned"
    /\ UNCHANGED <<my_dict, detect_vars_but_pc>>

\* the caller goes on to its next query on the same record
NextCall ==
    /\ pc = "returned"
    /\ pc' = "idle"
    /\ call' = [op |-> "none"]
    /\ good_key_prefix' = Unset
    /\ result' = [kind |-> "none"]
    /\ UNCHANGED <<my_dict, detect_vars_but_pc>>

NextQuery == FindSpikeOrigin \/ FindSpikeLastOccurance \/ Speed \/ Block \/ NextCall

SpecQuery == InitQuery /\ [][NextQuery]_vars

----------------------------------------------------------------------------
(* filter_freq (lines 133-172) and rasterize (lines 175-223) on a record   *)
(* that holds a simulated signal                                           *)

Signal == "V_mem"

\* rasterize's default timing arguments, line 175: t_start=0, t_stop=0,
\* t_min_spike=0.1 (less than one time unit)
DefaultTStart == 0
DefaultTStop == 0
DefaultTMinSpike == 0

\* which positions were recorded, lines 212-221: all of a myelinated fibre
\* (its nodes are node_index), or the positions x_rec; a field that is not
\* read on the record's path is left empty
Geometries ==
    {[myelinated |-> TRUE, rec |-> "all", node_index |-> l, x_rec |-> <<>>] :
        l \in RowLists}
    \cup
    {[myelinated |-> m, rec |-> "nodes", node_index |-> <<>>,
      x_rec |-> [k \in 1..n |-> x[k - 1]]] : m \in BOOLEAN, n \in 1..MaxRows}

\* a record after a simulation: dt = 0 says the solver used a variable time
\* step; otherwise t holds NCols samples dt apart, up to tstop
SignalRecords ==
    {[keys |-> {Signal},
      dt |-> d,
      tstop |-> IF d = 0 THEN SimTStop ELSE (NCols - 1) * d,
      myelinated |-> g.myelinated,
      rec |-> g.rec,
      node_index |-> g.node_index,
      x_rec |-> g.x_rec,
      written |-> <<>>] : d \in {0} \cup Dts, g \in Geometries}

InitRecord ==
    /\ my_dict \in SignalRecords
    /\ pc = "idle"
    /\ call = [op |-> "none"]
    /\ good_key_prefix = Unset
    /\ result = [kind |-> "none"]
    /\ DetectIdle

\* the key argument: the signal, or a key the record does not hold
SignalKeyArgs == {Signal, Signal \o "_filtered"}

\* my_dict[key] = value
SetItem(d, key, value) ==
    [d EXCEPT !.keys = @ \cup {key}, !.written = (key :> value) @@ @]

\* filter_freq with a single frequency; the filtered signal is kept as the
\* name of what was filtered
FilterFreq ==
    /\ pc = "idle"
    /\ \E my_key \in SignalKeyArgs :
          /\ call' = [op |-> "filter_freq", key |-> my_key]
          /\ IF my_dict.dt = 0
             THEN /\ result' = [kind |-> "False"]
                  /\ my_dict' = my_dict
             ELSE IF my_key \notin my_dict.keys
             THEN /\ result' = Raise("KeyError")
                  /\ my_dict' = my_dict
             ELSE /\ result' = [kind |-> "None"]
                  /\ my_dict' = SetItem(my_dict, my_key \o "_filtered",
                                        <<"lfilter", my_key>>)
    /\ pc' = "returned"
    /\ UNCHANGED <<good_key_prefix, detect_vars_but_pc>>

\* tstop/dt with dt = 0: ZeroDivisionError for a Python number; for a numpy
\* float the quotient is inf and int() raises OverflowError
DivisionByZeroOutcomes == {"ZeroDivisionError", "OverflowError"}

\* lines 212-221
ListToParse(d) ==
    IF d.myelinated /\ d.rec = "all"
    THEN d.node_index
    ELSE [k \in 1..Len(d.x_rec) |-> k - 1]

\* rasterize up to the call of spike_detection, lines 203-223, called with
\* a refractory period of one time step and the defaults otherwise
RasterizeBegin ==
    /\ pc = "idle"
    /\ \E my_key \in SignalKeyArgs, exc \in DivisionByZeroOutcomes :
          /\ call' = [op |-> "rasterize", key |-> my_key]
          /\ IF my_dict.dt = 0
             THEN /\ result' = Raise(exc)
                  /\ pc' = "returned"
                  /\ UNCHANGED detect_vars_but_pc
             ELSE IF my_key \notin my_dict.keys
             THEN /\ result' = Raise("KeyError")
                  /\ pc' = "returned"
                  /\ UNCHANGED detect_vars_but_pc
             ELSE /\ result' = result
                  /\ pc' = "row"
                  /\ Voltage' = <<>>
                  /\ list_to_parse' = ListToParse(my_dict)
                  /\ dt' = my_dict.dt
                  /\ t_start' = DefaultTStart
                  /\ t_stop' = IF DefaultTStop = 0
                               THEN IntDiv(my_dict.tstop, my_dict.dt)
                               ELSE IntDiv(DefaultTStop, my_dict.dt)
                  /\ t_refractory' = my_dict.dt
                  /\ t_min_spike' = DefaultTMinSpike
                  /\ li' = 1
                  /\ j' = 0
                  /\ t_last_spike' = 0
                  /\ raster_position' = <<>>
                  /\ raster_x_position' = <<>>
                  /\ raster_time_index' = <<>>
                  /\ raster_time' = <<>>
    /\ UNCHANGED <<my_dict, good_key_prefix>>

\* line 223: the four sequences spike_detection returned are stored
RasterizeEnd ==
    /\ pc = "done"
    /\ call.op = "rasterize"
    /\ my_dict' =
          SetItem(SetItem(SetItem(SetItem(my_dict,
              call.key \o "_raster_position", raster_position),
              call.key \o "_raster_x_position", raster_x_position),
              call.key \o "_raster_time_index", raster_time_index),
              call.key \o "_raster_time", raster_time)
    /\ result' = [kind |-> "None"]
    /\ pc' = "returned"
    /\ UNCHANGED <<call, good_key_prefix, detect_vars_but_pc>>

NextRecord ==
    \/ FilterFreq
    \/ RasterizeBegin
    \/ RowBegin \/ Sample \/ RowEnd \/ Return
    \/ RasterizeEnd

SpecRecord == InitRecord /\ [][NextRecord]_vars

----------------------------------------------------------------------------
(* Properties of spike_detection *)

\* round to nearest of a/b, a >= 0, b > 0 odd (no halves)
Round(a, b) == (2 * a + b) \div (2 * b)

\* events of the raster so far, as indices into the four sequences
Events == DOMAIN raster_position

\* C1: two consecutive events recorded on the same row, at samples j1 < j2,
\* are further apart than the refractory period: j2*dt - j1*dt > t_refractory.
C1_Refractory ==
    \A a \in Events :
        (a + 1 \in Events /\ raster_position[a] = raster_position[a + 1]) =>
            /\ raster_time_index[a] < raster_time_index[a + 1]
            /\ raster_time_index[a + 1] * dt - raster_time_index[a] * dt > t_refractory

\* a finished scan that recorded two events on one row with a non-zero
\* refractory period
C1_Witness ==
    /\ pc = "done"
    /\ t_refractory > 0
    /\ \E a \in Events :
          a + 1 \in Events /\ raster_position[a] = raster_position[a + 1]

\* C2: after every event recorded at sample j on the row being scanned, the
\* voltage is at or above the threshold at every sample j+1 ..
\* j+round(t_min_spike/dt) (cut off at t_stop).
C2_StaysAbove ==
    pc = "scan" =>
        \A a \in Events :
            raster_position[a] = CurRow =>
                \A m \in (raster_time_index[a] + 1) ..
                         Min2(raster_time_index[a] + Round(t_min_spike, dt), t_stop) :
                    Voltage[CurRow][m] >= thr

\* C3 as stated, with the start index and the look-ahead taken by rounding
C3_RecordIffRounded ==
    [][/\ (pc = "row" /\ pc' = "scan") =>
            (j' = Round(t_start, dt) /\ t_last_spike' = t_start - t_refractory)
       /\ (pc = "scan" /\ pc' = "scan") =>
            LET i == CurRow
                accept ==
                    /\ Voltage[i][j] <= thr /\ Voltage[i][j + 1] >= thr
                    /\ Voltage[i][Min2(j + Round(t_min_spike, dt), t_stop)] >= thr
                    /\ j * dt - t_last_spike > t_refractory
            IN  /\ j < t_stop /\ j' = j + 1
                /\ IF accept
                   THEN /\ raster_position' = Append(raster_position, i)
                        /\ raster_x_position' = Append(raster_x_position, x[i])
                        /\ raster_time_index' = Append(raster_time_index, j)
                        /\ raster_time' = Append(raster_time, t[j])
                        /\ t_last_spike' = j * dt
                   ELSE UNCHANGED <<raster_position, raster_x_position,
                                    raster_time_index, raster_time, t_last_spike>>
      ]_vars

\* C3 (amended): an event is recorded at (row i, sample j), j scanned from
\* int(t_start/dt) to t_stop-1, iff the crossing, the look-ahead at
\* min(j + int(t_min_spike/dt), t_stop) and the refractory test all hold, int()
\* truncating; acceptance appends (i, x[i], j, t[j]) and sets the last-spike
\* time to j*dt, rejection changes neither.
C3_RecordIff ==
    [][/\ (pc = "row" /\ pc' = "scan") =>
            (j' = t_start \div dt /\ t_last_spike' = t_start - t_refractory)
       /\ (pc = "scan" /\ pc' = "scan") =>
            LET i == CurRow
                accept ==
                    /\ Voltage[i][j] <= thr /\ Voltage[i][j + 1] >= thr
                    /\ Voltage[i][Min2(j + (t_min_spike \div dt), t_stop)] >= thr
                    /\ j * dt - t_last_spike > t_refractory
            IN  /\ j < t_stop /\ j' = j + 1
                /\ IF accept
                   THEN /\ raster_position' = Append(raster_position, i)
                        /\ raster_x_position' = Append(raster_x_position, x[i])
                        /\ raster_time_index' = Append(raster_time_index, j)
                        /\ raster_time' = Append(raster_time, t[j])
                        /\ t_last_spike' = j * dt
                   ELSE UNCHANGED <<raster_position, raster_x_position,
                                    raster_time_index, raster_time, t_last_spike>>
       /\ (pc = "scan" /\ pc' = "row") => j >= t_stop
      ]_vars

\* a scan that recorded an event where truncating and rounding
\* t_min_spike/dt give different look-ahead distances
C3_Witness ==
    /\ pc = "done"
    /\ Len(raster_position) > 0
    /\ t_min_spike \div dt # Round(t_min_spike, dt)

----------------------------------------------------------------------------
(* Properties of the raster queries *)

Returned(op) == pc = "returned" /\ call.op = op

\* the key-set a query is to read: the key argument when given, else the
\* filtered raster when held, else the raw raster when held
SpecifiedPrefix ==
    IF call.key # None THEN call.key
    ELSE IF Filtered \in my_dict.keys THEN Filtered
    ELSE IF Raw \in my_dict.keys THEN Raw
    ELSE Unset
HasRaster == SpecifiedPrefix # Unset /\ SpecifiedPrefix \in my_dict.keys
TheRaster == my_dict.raster[SpecifiedPrefix]

\* t_stop with 0 standing for tstop; t_start with 0 standing for the first
\* stimulation start (speed and block only)
TStopOfCall == IF call.t_stop = 0 THEN my_dict.tstop ELSE call.t_stop
TStartOfCall ==
    IF /\ call.op \in {"speed", "block"}
       /\ call.t_start = 0
       /\ "intra_stim_starts" \in my_dict.keys
       /\ my_dict.intra_stim_starts # <<>>
    THEN my_dict.intra_stim_starts[1]
    ELSE call.t_start

\* events strictly inside the time window of the call
InWindow ==
    {k \in DOMAIN TheRaster :
        TheRaster[k].time > TStartOfCall /\ TheRaster[k].time < TStopOfCall}

EarliestOf(S) == {k \in S : \A m \in S : TheRaster[k].time <= TheRaster[m].time}
LatestOf(S) == {k \in S : \A m \in S : TheRaster[k].time >= TheRaster[m].time}
EventsAt(S) == {<<TheRaster[k].time, TheRaster[k].x_position>> : k \in S}
Returns(S) ==
    /\ result.kind = "arrays"
    /\ Len(result.time) = Cardinality(S)
    /\ Len(result.x_position) = Cardinality(S)
    /\ {<<result.time[n], result.x_position[n]>> : n \in 1..Cardinality(S)} = EventsAt(S)

\* the subset find_spike_origin is to search
OriginSubset ==
    {k \in InWindow :
        /\ call.x_min = NoBound \/ TheRaster[k].x_position > call.x_min[1]
        /\ call.x_max = NoBound \/ TheRaster[k].x_position < call.x_max[1]}

\* C4: find_spike_origin returns exactly the events that lie strictly inside
\* the time window and inside the coordinate bounds and whose time is the
\* minimum over that subset: all events tied at the minimum, each with its
\* coordinate.
C4_Origin ==
    (Returned("find_spike_origin") /\ HasRaster /\ OriginSubset # {}) =>
        /\ Returns(EarliestOf(OriginSubset))
        /\ \A n \in DOMAIN result.time :
              \A k \in OriginSubset : result.time[n] <= TheRaster[k].time

\* an origin query that left an event out of its window and returned two
\* simultaneous events
C4_Witness ==
    /\ Returned("find_spike_origin")
    /\ HasRaster
    /\ Len(TheRaster) = 3
    /\ Cardinality(OriginSubset) = 2
    /\ result.kind = "arrays"
    /\ Len(result.time) = 2

\* C5: with an explicit x_start, find_spike_last_occurance returns the
\* latest event(s) above x_start for 'up', the latest event(s) below x_start
\* for 'down', and for any other direction the pair (latest below, latest
\* above).
C5_LastOccurrence ==
    (Returned("find_spike_last_occurance") /\ HasRaster /\ call.x_start # 0) =>
        LET Upper == {k \in InWindow : TheRaster[k].x_position > call.x_start}
            Lower == {k \in InWindow : TheRaster[k].x_position < call.x_start}
        IN  /\ (call.direction = "up" /\ Upper # {}) => Returns(LatestOf(Upper))
            /\ (call.direction = "down" /\ Lower # {}) => Returns(LatestOf(Lower))
            /\ (call.direction \notin {"up", "down"} /\ Upper # {} /\ Lower # {}) =>
                  /\ result.kind = "arrays"
                  /\ Len(result.time) = 2
                  /\ Len(result.x_position) = 2
                  /\ <<result.time[1], result.x_position[1]>> \in EventsAt(LatestOf(Lower))
                  /\ <<result.time[2], result.x_position[2]>> \in EventsAt(LatestOf(Upper))

\* C6: every query resolves its key prefix alike: the key argument when
\* given, else the filtered raster, else the raw raster, else "no data"; a
\* call with a key argument reads that key-set and is not stopped by the
\* resolution.
C6_KeyResolution ==
    pc = "returned" =>
        /\ SpecifiedPrefix = Unset => result.kind = "False"
        /\ HasRaster => good_key_prefix = SpecifiedPrefix
        /\ (call.key # None /\ call.key \in my_dict.keys) =>
              ~(result.kind = "raise" /\ result.exc \in {"NameError", "UnboundLocalError"})

\* the events speed is to use: inside the time window and inside
\* [x_start, x_stop], x_stop = 0 standing for the fibre length
SpeedSubset ==
    {k \in InWindow :
        /\ TheRaster[k].x_position >= call.x_start
        /\ TheRaster[k].x_position <= (IF call.x_stop = 0 THEN my_dict.L ELSE call.x_stop)}
DistinctTimes(S) == {TheRaster[k].time : k \in S}

\* C7: speed uses exactly the events inside both windows: its result is
\* (x of the latest - x of the earliest) * 1e-3 / (latest time - earliest time)
\* over that set.
C7_SpeedWindow ==
    (Returned("speed") /\ call.key = None /\ HasRaster /\ call.x_stop # 0
        /\ Cardinality(DistinctTimes(SpeedSubset)) >= 2) =>
        /\ result.kind = "number"
        /\ \E a \in LatestOf(SpeedSubset), b \in EarliestOf(SpeedSubset) :
              /\ result.num = TheRaster[a].x_position - TheRaster[b].x_position
              /\ result.den = TheRaster[a].time - TheRaster[b].time

\* C8: with fewer than two distinct times among the selected events, speed
\* reports "insufficient data": it neither raises nor divides by a zero time
\* difference.
C8_Insufficient ==
    (Returned("speed") /\ call.key = None /\ HasRaster
        /\ Cardinality(DistinctTimes(SpeedSubset)) < 2) =>
        result.kind \notin {"raise", "nan", "inf", "number"}

\* C9: with at least one event in the time window, block returns blocked /
\* not-blocked by the side of the stimulation (below the electrode: blocked
\* iff every event is below 9/10 of L; otherwise: blocked iff every event is
\* above 1/10 of L), and indeterminate without a stimulation position.
C9_Block ==
    (Returned("block") /\ HasRaster /\ InWindow # {}) =>
        IF "intra_stim_positions" \notin my_dict.keys
        THEN result.kind = "None"
        ELSE /\ result.kind \in {"True", "False"}
             /\ result.kind = "True" <=>
                  IF my_dict.intra_stim_positions < my_dict.extracellular_electrode_x
                  THEN \A k \in InWindow : 10 * TheRaster[k].x_position < 9 * my_dict.L
                  ELSE \A k \in InWindow : 10 * TheRaster[k].x_position > my_dict.L

\* C10: a query on a record without a raster key-set, or without an event
\* in the requested time window, returns "no data" without raising, and for
\* block that value is neither blocked nor not-blocked.
C10_NoData ==
    (pc = "returned" /\ (SpecifiedPrefix = Unset \/ (HasRaster /\ InWindow = {}))) =>
        /\ result.kind # "raise"
        /\ call.op = "block" => result.kind \notin {"True", "False"}

----------------------------------------------------------------------------
(* Further properties of spike_detection *)

\* the row being scanned has no event yet
RowHasNoEvent == \A a \in Events : raster_position[a] # CurRow

\* C12: the first candidate of a row is never rejected by the refractory
\* test: a scanned sample j >= round(t_start/dt), on a row without an event so
\* far, that passes the crossing and the minimum-duration conditions is
\* recorded as an event.
C12_FirstCandidate ==
    [][(/\ pc = "scan" /\ pc' = "scan"
        /\ j >= Round(t_start, dt)
        /\ RowHasNoEvent
        /\ Crossing(CurRow, j) /\ MinDuration(CurRow, j)) =>
            /\ raster_position' = Append(raster_position, CurRow)
            /\ raster_time_index' = Append(raster_time_index, j)
      ]_vars

\* C14: spike_detection reads no sample outside the matrix: with a start
\* index >= 0 and t_stop <= NCols-1, every column index read at a scanned
\* sample (j, j+1 and the look-ahead index) lies in 0..NCols-1, and none is
\* larger than t_stop.
C14_ReadsInside ==
    (pc = "scan" /\ j < t_stop) =>
        \A m \in ReadIndices(CurRow, j) : m \in Cols /\ m <= t_stop

\* a scanned sample whose look-ahead is read and would pass t_stop, and so
\* the last column, were it not cut off
C14_Witness ==
    /\ pc = "scan" /\ j < t_stop
    /\ Crossing(CurRow, j)
    /\ j + IntDiv(t_min_spike, dt) > NCols - 1
    /\ t_stop \in ReadIndices(CurRow, j)

\* place of a row in the scan list
PlaceOf(r) == CHOOSE k \in DOMAIN list_to_parse : list_to_parse[k] = r

\* C13: the four sequences of spike_detection have one length and are in
\* row-major, then time-ascending order: an event of a row listed earlier
\* comes before every event of a row listed later, and within one row the
\* time indices strictly increase.
C13_RowMajor ==
    /\ Len(raster_x_position) = Len(raster_position)
    /\ Len(raster_time_index) = Len(raster_position)
    /\ Len(raster_time) = Len(raster_position)
    /\ \A a, b \in Events :
          a < b =>
              /\ PlaceOf(raster_position[a]) <= PlaceOf(raster_position[b])
              /\ raster_position[a] = raster_position[b] =>
                    raster_time_index[a] < raster_time_index[b]

\* a finished scan of two rows, with two events on the first and an event
\* on the second
C13_Witness ==
    /\ pc = "done"
    /\ Len(list_to_parse) >= 2
    /\ \E a, b, c \in Events :
          /\ a < b /\ b < c
          /\ raster_position[a] = raster_position[b]
          /\ raster_position[b] # raster_position[c]

----------------------------------------------------------------------------
(* Properties of filter_freq and rasterize *)

\* C11: on a record whose dt is 0, filter_freq and rasterize return a
\* failure value without raising and leave the record as it was: no key is
\* added and no value changed.
C11_VariableStep ==
    [][(pc = "idle" /\ my_dict.dt = 0) =>
            /\ my_dict' = my_dict
            /\ result'.kind = "False"
      ]_vars

====
